---------------------------- MODULE Spec2Model ----------------------------
(***************************************************************************)
(* Model of ALLCools pseudo-cell generation                                *)
(* (ALLCools/pseudo_cell/pseudo_cell_kmeans.py) and of the external-tool   *)
(* probes of ALLCools/jbrowse/__init__.py and ALLCools/motif/cmotif.py.    *)
(*                                                                         *)
(* Python strings are sequences of one-character strings, so that string   *)
(* formatting ('|' + str(i), f'{cluster}::{i}') and parsing                *)
(* (str.split('::')) are computed, not assumed.  A pandas Series is a      *)
(* sequence of <<index, value>> pairs in index order.                      *)
(***************************************************************************)
EXTENDS Integers, Sequences, FiniteSets, TLC

(* ------------------------------ bounds --------------------------------- *)
\* largest number of cells of a dataset passed to generate_pseudo_cells
MaxDataset == 3
\* largest number of cells of a direct _kmeans_division call that clusters
MaxCells == 4
\* largest number of cells of a direct _kmeans_division call that takes the
\* max_pseudo_size <= 1 branch (no clustering, so larger inputs are cheap)
MaxDegenCells == 11
\* largest max_pseudo_size argument
MaxPseudoSize == 3
\* largest pseudoable_cluster_size argument
MaxPseudoable == 3
\* largest explicit max_k argument of a direct _kmeans_division call
MaxMaxK == 3
\* longest partition path (number of nested splits) the model follows
MaxDepth == 2

\* max_k=50, the default of _kmeans_division
DefaultMaxK == 50

(* ------------------------------ strings -------------------------------- *)
Digits == <<"0", "1", "2", "3", "4", "5", "6", "7", "8", "9">>

\* str(i) for a non-negative int: its decimal digits
RECURSIVE ToStr(_)
ToStr(i) ==
    IF i < 10 THEN <<Digits[i + 1]>>
    ELSE ToStr(i \div 10) \o <<Digits[(i % 10) + 1]>>

\* code point order of the characters that occur in labels
Ord(c) ==
    CASE c = "0" -> 48 [] c = "1" -> 49 [] c = "2" -> 50 [] c = "3" -> 51
      [] c = "4" -> 52 [] c = "5" -> 53 [] c = "6" -> 54 [] c = "7" -> 55
      [] c = "8" -> 56 [] c = "9" -> 57 [] c = ":" -> 58 [] c = "a" -> 97
      [] c = "b" -> 98 [] c = "n" -> 110 [] c = "|" -> 124

\* s < t in Python's string order (lexicographic by code point)
RECURSIVE StrLess(_, _)
StrLess(s, t) ==
    IF t = <<>> THEN FALSE
    ELSE IF s = <<>> THEN TRUE
    ELSE IF Head(s) = Head(t) THEN StrLess(Tail(s), Tail(t))
    ELSE Ord(Head(s)) < Ord(Head(t))

\* the elements of a finite set of strings as a sequence in sorted order
RECURSIVE SortedStrs(_)
SortedStrs(S) ==
    IF S = {} THEN <<>>
    ELSE LET m == CHOOSE x \in S : \A y \in S \ {x} : StrLess(x, y)
         IN  <<m>> \o SortedStrs(S \ {m})

Pipe == <<"|">>
ColonColon == <<":", ":">>

\* NaN, the value of an unset entry of pd.Series(index=cells)
NaN == <<"nan">>

(* --------------------------- pandas helpers ---------------------------- *)
\* the index of a Series, in order
SeriesIndex(s) == [i \in 1..Len(s) |-> s[i][1]]
\* the values of a Series, in order
SeriesValues(s) == [i \in 1..Len(s) |-> s[i][2]]
\* the set of elements of a sequence
Range(q) == {q[i] : i \in 1..Len(q)}

\* the subsequence of q of the elements satisfying Test (boolean indexing)
RECURSIVE SelectWhere(_, _)
SelectWhere(q, keep) ==
    IF q = <<>> THEN <<>>
    ELSE (IF Head(q) \in keep THEN <<Head(q)>> ELSE <<>>)
         \o SelectWhere(Tail(q), keep)

\* (mutant) the last of curr_cells keeps its old value
LocAssignButLast(s, curr_cells, values) ==
    [i \in 1..Len(s) |->
        IF \E j \in 1..(Len(curr_cells) - 1) : curr_cells[j] = s[i][1]
        THEN <<s[i][1],
               values[CHOOSE j \in 1..Len(curr_cells) : curr_cells[j] = s[i][1]]>>
        ELSE s[i]]

\* labels.loc[curr_cells] = values: entry with index curr_cells[j] gets values[j]
LocAssign(s, curr_cells, values) ==
    [i \in 1..Len(s) |->
        IF \E j \in 1..Len(curr_cells) : curr_cells[j] = s[i][1]
        THEN <<s[i][1],
               values[CHOOSE j \in 1..Len(curr_cells) : curr_cells[j] = s[i][1]]>>
        ELSE s[i]]

\* labels.loc[curr_cells]: the entries of s for curr_cells, in curr_cells order
Loc(s, curr_cells) ==
    [j \in 1..Len(curr_cells) |->
        s[CHOOSE i \in 1..Len(s) : s[i][1] = curr_cells[j]]]

\* series.groupby(series): one <<label, index of the group's entries>> per
\* distinct value (NaN is dropped), in sorted label order, each group in
\* series order
GroupBy(s) ==
    LET keys == SortedStrs(Range(SeriesValues(s)) \ {NaN})
    IN  [g \in 1..Len(keys) |->
            <<keys[g],
              SeriesIndex(SelectWhere(s, {e \in Range(s) : e[2] = keys[g]}))>>]

(* ------------------------------- inputs -------------------------------- *)
MaxKs == (2..MaxMaxK) \cup {DefaultMaxK}

\* cluster names: one that ends in ':' and one that contains '::'
ClusterNames == {<<"a", ":">>, <<"a", ":", ":", "b">>}

\* the aggregate_func values _merge_pseudo_cell has a branch for
ValidFuncs == {"sum", "mean", "median", "downsample"}

AggregateFuncs == ValidFuncs \cup {"max"}

\* feature matrices for n cells: all rows different, or rows that repeat
FeatureMatrices(n) ==
    {[c \in 1..n |-> <<2 * c - 1, 2 * c>>], [c \in 1..n |-> <<c % 2, 1>>]}

(* --------------------------- _kmeans_division -------------------------- *)
VARIABLES
    entry,          \* the function called: "generate_pseudo_cells" or "_kmeans_division"
    pc,             \* control point
    err,            \* exception raised, "none" if none
    cells,          \* _kmeans_division: cells argument (sequence of cell ids)
    max_size,       \* _kmeans_division: max_pseudo_size argument
    max_k,          \* _kmeans_division: max_k argument
    labels,         \* _kmeans_division: labels Series
    to_process,     \* _kmeans_division: work stack of <<cells, prefix>>
    fit_calls,      \* number of MiniBatchKMeans.fit calls made so far
    division,       \* value returned by _kmeans_division (a Series), once returned
    obs_names,      \* adata.obs_names: the cell ids of the dataset, in order
    clusters,       \* adata.obs[cluster_col]: Series cell -> cluster name
    categories,     \* the categories of the cluster column (those in use, and maybe unused ones)
    X,              \* adata.X: cell -> feature row (<<>> until it is read)
    pseudoable_cluster_size,
    max_pseudo_size,
    aggregate_func, \* the aggregate_func argument ("" until it is read)
    max_pseudo_sizes, \* _calculate_pseudo_group: the <<cluster, cap>> items still to iterate
    cluster,        \* _calculate_pseudo_group: loop variable
    records,        \* _calculate_pseudo_group: list of Series
    pseudo_group,   \* the Series _calculate_pseudo_group returns
    obs_pseudo_group, \* adata.obs['pseudo_group'], once assigned
    balanced_matrix,\* _merge_pseudo_cell: rows appended so far
    obs,            \* _merge_pseudo_cell: <<group, n_cells>> entries so far
    result,         \* the AnnData returned by generate_pseudo_cells: its rows
    t_op,           \* external tools: the operation in progress
    t_pc,           \* external tools: control point
    t_err,          \* external tools: the exception propagating, "none" if none
    cli,            \* the external binary: "ok", "missing", or "nonzero" (its
                    \* version probe exits non-zero)
    probe,          \* what the version probe of the operation met, "none" before it
    files,          \* which of the JBrowse paths exist: "path", "config", "trix"
    created,        \* JBrowse.created
    transcript_gtf, \* create(): whether a transcript_gtf is given
    path_to_fimo,   \* bed_cmotif_profiles: the path_to_fimo argument
    printed,        \* what the operation has printed so far
    commands,       \* the external commands the operation has run after its probe
    made            \* the files and directories the operation has written

divVars == <<cells, max_size, max_k, labels, to_process, fit_calls, division>>
inputVars == <<obs_names, clusters, categories, X, pseudoable_cluster_size,
               max_pseudo_size, aggregate_func>>
groupVars == <<max_pseudo_sizes, cluster, records, pseudo_group, obs_pseudo_group>>
mergeVars == <<balanced_matrix, obs, result>>
pipeVars == <<entry, pc, err, divVars, inputVars, groupVars, mergeVars>>
toolVars == <<t_op, t_pc, t_err, cli, probe, files, created, transcript_gtf,
              path_to_fimo, printed, commands, made>>
vars == <<pipeVars, toolVars>>

\* (mutant) one cluster more than the quotient plus one
SplitFactorPlusTwo(n, m, mk) ==
    LET a == (n \div m) + 2 IN IF a < mk THEN a ELSE mk

\* k = min(len(curr_cells)//max_pseudo_size+1, max_k)
SplitFactor(n, m, mk) ==
    LET a == (n \div m) + 1 IN IF a < mk THEN a ELSE mk

\* (mutant) the prefix of the popped entry is left out
CurrLabelsNoPrefix(curr_prefix, mbk_labels) ==
    [i \in 1..Len(mbk_labels) |-> Pipe \o ToStr(mbk_labels[i])]

\* curr_prefix+'|'+pd.Series(mbk.labels_).astype(str)
CurrLabels(curr_prefix, mbk_labels) ==
    [i \in 1..Len(mbk_labels) |-> curr_prefix \o Pipe \o ToStr(mbk_labels[i])]

\* (mutant) a group one cell over the bound is not split again
OversizedOffByOne(groups, m) ==
    LET big == SelectWhere(groups, {g \in Range(groups) : Len(g[2]) > m + 1})
    IN  [j \in 1..Len(big) |-> <<big[j][2], big[j][1]>>]

\* the (cluster_cells.index, cluster_label) pairs appended to to_process
Oversized(groups, m) ==
    LET big == SelectWhere(groups, {g \in Range(groups) : Len(g[2]) > m})
    IN  [j \in 1..Len(big) |-> <<big[j][2], big[j][1]>>]

\* number of '|' separated tokens of a label prefix
Depth(prefix) == Cardinality({i \in 1..Len(prefix) : prefix[i] = "|"})

\* (mutant) positions counted from 1
SingletonLabelsFromOne(cs) == [i \in 1..Len(cs) |-> <<cs[i], Pipe \o ToStr(i)>>]

\* '|'+pd.Series(range(cells.size), index=cells).astype(str)
SingletonLabels(cs) == [i \in 1..Len(cs) |-> <<cs[i], Pipe \o ToStr(i - 1)>>]

\* pd.Series(index=cells)
EmptySeries(cs) == [i \in 1..Len(cs) |-> <<cs[i], NaN>>]

\* entry of _kmeans_division(matrix, cs, m, mk): the max_pseudo_size <= 1
\* branch returns at once, otherwise the work stack is seeded
KMeansDivisionCall(cs, m, mk) ==
    /\ cells' = cs
    /\ max_size' = m
    /\ max_k' = mk
    /\ IF m <= 1
       THEN /\ division' = SingletonLabels(cs)
            /\ labels' = <<>>
            /\ to_process' = <<>>
            /\ pc' = "division_returned"
       ELSE /\ labels' = EmptySeries(cs)
            /\ to_process' = << <<cs, <<>> >> >>
            /\ division' = <<>>
            /\ pc' = "kmeans_loop"

\* a direct call of _kmeans_division
DirectCall ==
    /\ pc = "call"
    /\ entry = "_kmeans_division"
    /\ KMeansDivisionCall(cells, max_size, max_k)
    /\ UNCHANGED <<entry, err, fit_calls, inputVars, groupVars, mergeVars>>
    /\ UNCHANGED toolVars

\* one iteration of the while loop: pop, cluster, label, push the oversized groups.
\* mbk.fit is an external routine: any assignment of the rows to 0..k-1 is a
\* possible outcome; it raises ValueError on a matrix without rows.
KMeansStep ==
    /\ pc = "kmeans_loop"
    /\ Len(to_process) > 0
    /\ LET top == to_process[Len(to_process)]
           rest == SubSeq(to_process, 1, Len(to_process) - 1)
           curr_cells == top[1]
           curr_prefix == top[2]
           k == SplitFactor(Len(curr_cells), max_size, max_k)
       IN  /\ Depth(curr_prefix) < MaxDepth
           /\ fit_calls' = fit_calls + 1
           /\ IF Len(curr_cells) < k
              THEN /\ pc' = "error"
                   /\ err' = "ValueError: n_samples"
                   /\ to_process' = rest
                   /\ UNCHANGED <<labels>>
              ELSE \E mbk_labels \in [1..Len(curr_cells) -> 0..(k - 1)] :
                     \E assigned \in {LocAssign(labels, curr_cells,
                                                CurrLabels(curr_prefix, mbk_labels))} :
                       \E curr_labels \in {Loc(assigned, curr_cells)} :
                         /\ labels' = assigned
                         /\ to_process' = rest \o Oversized(GroupBy(curr_labels), max_size)
                         /\ UNCHANGED <<pc, err>>
    /\ UNCHANGED <<entry, cells, max_size, max_k, division>>
    /\ UNCHANGED <<inputVars, groupVars, mergeVars>>
    /\ UNCHANGED toolVars

\* the while loop ends: return labels
KMeansReturn ==
    /\ pc = "kmeans_loop"
    /\ Len(to_process) = 0
    /\ division' = labels
    /\ pc' = "division_returned"
    /\ UNCHANGED <<entry, err, cells, max_size, max_k, labels, to_process, fit_calls>>
    /\ UNCHANGED <<inputVars, groupVars, mergeVars>>
    /\ UNCHANGED toolVars

(* ------------------------ _calculate_pseudo_group ---------------------- *)
\* the permutations of a finite set, as sequences
RECURSIVE Perms(_)
Perms(S) ==
    IF S = {} THEN {<<>>}
    ELSE UNION {{<<x>> \o q : q \in Perms(S \ {x})} : x \in S}

\* number of cells of cluster c
CellCount(cl, c) == Cardinality({i \in 1..Len(cl) : cl[i][2] = c})

\* clusters.value_counts(): one count per category (an unused category of a
\* categorical column counts 0), sorted by count, largest first; the order of
\* equal counts is not determined by the source
ValueCounts(cl, cats) ==
    {q \in Perms(cats) :
        \A i \in 1..(Len(q) - 1) : CellCount(cl, q[i]) >= CellCount(cl, q[i + 1])}

\* (mutant) the '+ 1' is left out
PseudoSizeCapNoPlusOne(n, pcs, mps) ==
    LET a == n \div pcs IN IF a > mps THEN mps ELSE a

\* (cluster_cells // pseudoable_cluster_size + 1), capped at max_pseudo_size
PseudoSizeCap(n, pcs, mps) ==
    LET a == (n \div pcs) + 1 IN IF a > mps THEN mps ELSE a

\* clusters[clusters == cluster].index
ClusterCells(cl, c) == SeriesIndex(SelectWhere(cl, {e \in Range(cl) : e[2] = c}))

\* (mutant) the labels are left without the cluster prefix
PrefixNothing(c, record) == record

\* f'{i}' of a label: the label itself; NaN is formatted as 'nan'
FormatLabel(v) == IF v = NaN THEN <<"n", "a", "n">> ELSE v

\* record.apply(lambda i: f'{cluster}::{i}')
PrefixCluster(c, record) ==
    [i \in 1..Len(record) |->
        <<record[i][1], c \o ColonColon \o FormatLabel(record[i][2])>>]

\* pd.concat(records)
RECURSIVE Concat(_)
Concat(rs) == IF rs = <<>> THEN <<>> ELSE Head(rs) \o Concat(Tail(rs))

\* adata.obs[pseudo_group_key] = pseudo_group: aligned on the index; a cell
\* without an entry gets NaN
AlignToObs(names, series) ==
    [i \in 1..Len(names) |->
        IF \E j \in 1..Len(series) : series[j][1] = names[i]
        THEN series[CHOOSE j \in 1..Len(series) : series[j][1] = names[i]]
        ELSE <<names[i], NaN>>]

\* generate_pseudo_cells enters _calculate_pseudo_group: value_counts and caps
CalculatePseudoGroup ==
    /\ pc = "call"
    /\ entry = "generate_pseudo_cells"
    /\ \E order \in ValueCounts(clusters, categories) :
         max_pseudo_sizes' =
            [i \in 1..Len(order) |->
                <<order[i], PseudoSizeCap(CellCount(clusters, order[i]),
                                          pseudoable_cluster_size, max_pseudo_size)>>]
    /\ records' = <<>>
    /\ pc' = "cluster_loop"
    /\ UNCHANGED <<entry, err, divVars, inputVars, cluster, pseudo_group,
                   obs_pseudo_group, mergeVars>>
    /\ UNCHANGED toolVars

\* one iteration of the for loop, up to the call of _kmeans_division
ClusterCall ==
    /\ pc = "cluster_loop"
    /\ Len(max_pseudo_sizes) > 0
    /\ cluster' = Head(max_pseudo_sizes)[1]
    /\ max_pseudo_sizes' = Tail(max_pseudo_sizes)
    /\ KMeansDivisionCall(ClusterCells(clusters, Head(max_pseudo_sizes)[1]),
                          Head(max_pseudo_sizes)[2], DefaultMaxK)
    /\ UNCHANGED <<entry, err, fit_calls, inputVars, records, pseudo_group,
                   obs_pseudo_group, mergeVars>>
    /\ UNCHANGED toolVars

\* the rest of the iteration: prefix the labels with the cluster, append
ClusterRecord ==
    /\ pc = "division_returned"
    /\ entry = "generate_pseudo_cells"
    /\ records' = Append(records, PrefixCluster(cluster, division))
    /\ pc' = "cluster_loop"
    /\ UNCHANGED <<entry, err, divVars, inputVars, max_pseudo_sizes, cluster,
                   pseudo_group, obs_pseudo_group, mergeVars>>
    /\ UNCHANGED toolVars

(* -------------------------- _merge_pseudo_cell ------------------------- *)
\* pd.concat(records) is returned to generate_pseudo_cells, which stores it
\* in adata.obs (aligned on the index).  pd.concat raises ValueError on an
\* empty list.
ConcatRecords ==
    /\ pc = "cluster_loop"
    /\ Len(max_pseudo_sizes) = 0
    /\ IF records = <<>>
       THEN /\ pc' = "error"
            /\ err' = "ValueError: concat"
            /\ UNCHANGED <<pseudo_group, obs_pseudo_group>>
       ELSE /\ pseudo_group' = Concat(records)
            /\ obs_pseudo_group' = AlignToObs(obs_names, Concat(records))
            /\ pc' = "merge_call"
            /\ UNCHANGED err
    /\ UNCHANGED <<entry, divVars, inputVars, max_pseudo_sizes, cluster, records,
                   mergeVars>>
    /\ UNCHANGED toolVars

\* X[cells, :].sum(axis=0): the column sums of the rows of the cells
RECURSIVE ColumnSum(_, _, _)
ColumnSum(x, cs, j) ==
    IF cs = <<>> THEN 0 ELSE x[Head(cs)][j] + ColumnSum(x, Tail(cs), j)

\* (mutant) the row of the first cell only
FirstRow(x, cs) == x[cs[1]]

SumRow(x, cs) == [j \in 1..Len(x[cs[1]]) |-> ColumnSum(x, cs, j)]

\* X[cells, :].mean(axis=0): each column sum over the number of rows, kept as
\* the exact fraction <<numerator, denominator>>
MeanRow(x, cs) == [j \in 1..Len(x[cs[1]]) |-> <<ColumnSum(x, cs, j), Len(cs)>>]

\* the body of the for loop for one group: the group's row, or the exception
\* raised.  pick is the position np.random.choice draws for 'downsample'.
\* Neither numpy arrays nor scipy sparse matrices have a median method: the
\* except AttributeError branch repeats the call and raises AttributeError.
GroupData(x, func, gcells, pick) ==
    IF Len(gcells) = 1 THEN [row |-> x[gcells[1]], err |-> "none"]
    ELSE IF func = "sum" THEN [row |-> SumRow(x, gcells), err |-> "none"]
    ELSE IF func = "mean" THEN [row |-> MeanRow(x, gcells), err |-> "none"]
    ELSE IF func = "median" THEN [row |-> <<>>, err |-> "AttributeError: median"]
    ELSE IF func = "downsample" THEN [row |-> x[gcells[pick]], err |-> "none"]
    ELSE [row |-> <<>>, err |-> "ValueError: aggregate_func"]

\* the for loop over the groups, from group g on: balanced_matrix and obs as
\* they stand when the loop ends or raises
RECURSIVE MergeLoop(_, _, _, _, _, _)
MergeLoop(x, func, groups, picks, g, acc) ==
    IF g > Len(groups) THEN acc
    ELSE LET d == GroupData(x, func, groups[g][2], picks[g])
         IN  IF d.err # "none" THEN [acc EXCEPT !.err = d.err]
             ELSE MergeLoop(x, func, groups, picks, g + 1,
                            [balanced_matrix |-> Append(acc.balanced_matrix, d.row),
                             obs |-> Append(acc.obs, <<groups[g][1], Len(groups[g][2])>>),
                             err |-> "none"])

\* the draws of np.random.choice, one per group (used by 'downsample' only)
Picks(func, groups) ==
    IF func = "downsample"
    THEN {q \in [1..Len(groups) -> 1..MaxDataset] :
             \A g \in 1..Len(groups) : q[g] <= Len(groups[g][2])}
    ELSE {[g \in 1..Len(groups) |-> 1]}

\* s.split('::')
RECURSIVE Split(_)
Split(s) ==
    IF \E i \in 1..(Len(s) - 1) : s[i] = ":" /\ s[i + 1] = ":"
    THEN LET i == CHOOSE i \in 1..(Len(s) - 1) :
                    /\ s[i] = ":" /\ s[i + 1] = ":"
                    /\ \A j \in 1..(i - 1) : ~(s[j] = ":" /\ s[j + 1] = ":")
         IN  <<SubSeq(s, 1, i - 1)>> \o Split(SubSeq(s, i + 2, Len(s)))
    ELSE <<s>>

\* '::'.join(parts)
RECURSIVE Join(_)
Join(parts) ==
    IF parts = <<>> THEN <<>>
    ELSE IF Len(parts) = 1 THEN parts[1]
    ELSE parts[1] \o ColonColon \o Join(Tail(parts))

\* obs_names.str.split('::').str[:-1].str.join('::')
RecoverCluster(name) ==
    LET parts == Split(name) IN Join(SubSeq(parts, 1, Len(parts) - 1))

\* the rows of anndata.AnnData(balanced_matrix, obs=...), with the cluster
\* column generate_pseudo_cells adds
ReducedDataset(matrix, o) ==
    [i \in 1..Len(o) |->
        [name |-> o[i][1], n_cells |-> o[i][2], row |-> matrix[i],
         cluster |-> RecoverCluster(o[i][1])]]

\* generate_pseudo_cells calls _merge_pseudo_cell(adata, aggregate_func, key),
\* which reads adata.X and aggregate_func, and adds the cluster column to what
\* it returns.  vstack raises ValueError on an empty list.
MergePseudoCell ==
    /\ pc = "merge_call"
    /\ \E groups \in {GroupBy(obs_pseudo_group)} :
         \E func \in AggregateFuncs, x \in FeatureMatrices(Len(obs_names)) :
           \E picks \in Picks(func, groups) :
             \E m \in {MergeLoop(x, func, groups, picks, 1,
                                [balanced_matrix |-> <<>>, obs |-> <<>>, err |-> "none"])} :
                   /\ aggregate_func' = func
                   /\ X' = x
                   /\ balanced_matrix' = m.balanced_matrix
                   /\ obs' = m.obs
                   /\ IF m.err # "none"
                      THEN /\ pc' = "error"
                           /\ err' = m.err
                           /\ UNCHANGED result
                      ELSE IF m.balanced_matrix = <<>>
                      THEN /\ pc' = "error"
                           /\ err' = "ValueError: vstack"
                           /\ UNCHANGED result
                      ELSE /\ result' = ReducedDataset(m.balanced_matrix, m.obs)
                           /\ pc' = "done"
                           /\ UNCHANGED err
    /\ UNCHANGED <<entry, divVars, obs_names, clusters, categories,
                   pseudoable_cluster_size, max_pseudo_size, groupVars>>
    /\ UNCHANGED toolVars


(* ---------------------------- external tools --------------------------- *)
JBrowseDiagnostic == "JBrowse does not seem to be installed. Please install it first"
FimoDiagnostic == "Test fimo failed. Make sure fimo (MEME suite) is installed"
SkipMessage == "already exists. Skipping."

\* path_to_fimo.rstrip('/')
RECURSIVE RStripSlash(_)
RStripSlash(p) ==
    IF p # <<>> /\ p[Len(p)] = "/" THEN RStripSlash(SubSeq(p, 1, Len(p) - 1)) ELSE p

\* if path_to_fimo != '': path_to_fimo = path_to_fimo.rstrip('/') + '/'
FimoDir(p) == IF p # <<>> THEN RStripSlash(p) \o <<"/">> ELSE p

\* JBrowse._test_cli: _run_cmd prints the command and runs it through the
\* shell with check=True; a missing binary is the shell's exit code 127, so
\* both failures raise CalledProcessError, which except Exception catches:
\* the diagnostic is printed and the exception raised again
TestCli(next) ==
    /\ probe' = cli
    /\ IF cli = "ok"
       THEN /\ printed' = <<"jbrowse --version">>
            /\ t_pc' = next
            /\ UNCHANGED t_err
       ELSE /\ printed' = <<"jbrowse --version", JBrowseDiagnostic>>
            /\ t_pc' = "failed"
            /\ t_err' = "CalledProcessError"

\* JBrowse.__init__
JBrowseInit ==
    /\ t_op = "JBrowse"
    /\ t_pc = "call"
    /\ created' = ("config" \in files)
    /\ TestCli("constructed")
    /\ UNCHANGED <<t_op, cli, files, transcript_gtf, path_to_fimo, commands, made>>
    /\ UNCHANGED pipeVars

\* between two operations the binary may be removed or break
ToolChanges ==
    /\ t_op = "JBrowse"
    /\ t_pc = "constructed"
    /\ cli' \in {"ok", "missing", "nonzero"} \ {cli}
    /\ UNCHANGED <<t_op, t_pc, t_err, probe, files, created, transcript_gtf,
                   path_to_fimo, printed, commands, made>>
    /\ UNCHANGED pipeVars

\* JBrowse.create up to the end of _test_cli in _create: nothing to do when
\* the config exists
Create ==
    /\ t_op = "JBrowse"
    /\ t_pc = "constructed"
    /\ t_op' = "create"
    /\ IF "config" \in files
       THEN /\ printed' = <<SkipMessage>>
            /\ t_pc' = "returned"
            /\ probe' = "none"
            /\ UNCHANGED t_err
       ELSE TestCli("mkdir")
    /\ UNCHANGED <<cli, files, created, transcript_gtf, path_to_fimo, commands, made>>
    /\ UNCHANGED pipeVars

\* _run_cmd(cmd): the command is printed and run; a non-zero exit raises
RunCmd(cmd, next) ==
    /\ printed' = Append(printed, cmd)
    /\ commands' = Append(commands, cmd)
    /\ \/ /\ t_pc' = next
          /\ UNCHANGED t_err
       \/ /\ t_pc' = "failed"
          /\ t_err' = "CalledProcessError"

\* _create after the probe: mkdir, then jbrowse create
CreateDir ==
    /\ t_op = "create"
    /\ t_pc = "mkdir"
    /\ files' = files \cup {"path"}
    /\ made' = IF "path" \in files THEN made ELSE made \cup {"path"}
    /\ RunCmd("jbrowse create", "add_assembly")
    /\ UNCHANGED <<t_op, cli, probe, created, transcript_gtf, path_to_fimo>>
    /\ UNCHANGED pipeVars

AddAssembly ==
    /\ t_op = "create"
    /\ t_pc = "add_assembly"
    /\ RunCmd("jbrowse add-assembly", "add_track")
    /\ UNCHANGED <<t_op, cli, probe, files, created, transcript_gtf, path_to_fimo, made>>
    /\ UNCHANGED pipeVars

\* add_track(gene_gtf), and add_track(transcript_gtf) if there is one
AddTrack ==
    /\ t_op = "create"
    /\ t_pc \in {"add_track", "add_transcript_track"}
    /\ RunCmd("jbrowse add-track",
              IF t_pc = "add_track" /\ transcript_gtf
              THEN "add_transcript_track" ELSE "text_index")
    /\ UNCHANGED <<t_op, cli, probe, files, created, transcript_gtf, path_to_fimo, made>>
    /\ UNCHANGED pipeVars

\* text_index, skipped when the trix directory exists; then created = True
TextIndex ==
    /\ t_op = "create"
    /\ t_pc = "text_index"
    /\ IF "trix" \in files
       THEN /\ printed' = Append(printed, SkipMessage)
            /\ t_pc' = "returned"
            /\ created' = TRUE
            /\ UNCHANGED <<t_err, commands>>
       ELSE /\ RunCmd("jbrowse text-index", "returned")
            /\ created' = (t_pc' = "returned")
    /\ UNCHANGED <<t_op, cli, probe, files, transcript_gtf, path_to_fimo, made>>
    /\ UNCHANGED pipeVars

\* JBrowse.serve on a constructed object, before or after create()
Serve ==
    /\ \/ t_op = "JBrowse" /\ t_pc = "constructed"
       \/ t_op = "create" /\ t_pc = "returned"
    /\ t_op' = "serve"
    /\ probe' = "none"
    /\ made' = {}
    /\ IF ~created
       THEN /\ t_pc' = "failed"
            /\ t_err' = "Exception"
            /\ printed' = <<>>
            /\ commands' = <<>>
       ELSE /\ printed' = <<"npx serve">>
            /\ commands' = <<"npx serve">>
            /\ \/ /\ t_pc' = "returned"
                  /\ UNCHANGED t_err
               \/ /\ t_pc' = "failed"
                  /\ t_err' = "CalledProcessError"
    /\ UNCHANGED <<cli, files, created, transcript_gtf, path_to_fimo>>
    /\ UNCHANGED pipeVars

\* bed_cmotif_profiles up to temp_paths = []: subprocess.run of the argument
\* list [fimo, --version] with check=True raises FileNotFoundError when the
\* binary is missing and CalledProcessError when it exits non-zero; only the
\* latter is caught, reported and raised again
FimoProbe ==
    /\ t_op = "bed_cmotif_profiles"
    /\ t_pc = "call"
    /\ path_to_fimo' = FimoDir(path_to_fimo)
    /\ probe' = cli
    /\ commands' = <<>>
    /\ IF cli = "ok"
       THEN /\ t_pc' = "get_fasta"
            /\ UNCHANGED <<t_err, printed>>
       ELSE IF cli = "nonzero"
       THEN /\ printed' = Append(printed, FimoDiagnostic)
            /\ t_pc' = "failed"
            /\ t_err' = "CalledProcessError"
       ELSE /\ t_pc' = "failed"
            /\ t_err' = "FileNotFoundError"
            /\ UNCHANGED printed
    /\ UNCHANGED <<t_op, cli, files, created, transcript_gtf, made>>
    /\ UNCHANGED pipeVars

\* what a step of bed_cmotif_profiles writes, and the step after it
StepOutput(step) ==
    CASE step = "get_fasta" -> ".fa"
      [] step = "scan_motif" -> ".motif_scan"
      [] step = "aggregate" -> "total_motif.bed"
      [] step = "database" -> "output_path"

StepAfter(step) ==
    CASE step = "get_fasta" -> "scan_motif"
      [] step = "scan_motif" -> "aggregate"
      [] step = "aggregate" -> "database"
      [] step = "database" -> "returned"

\* steps 1 to 4 of bed_cmotif_profiles: each runs external programs and
\* writes its output, or raises
ProfileStep ==
    /\ t_op = "bed_cmotif_profiles"
    /\ t_pc \in {"get_fasta", "scan_motif", "aggregate", "database"}
    /\ commands' = Append(commands, t_pc)
    /\ \/ /\ made' = made \cup {StepOutput(t_pc)}
          /\ t_pc' = StepAfter(t_pc)
          /\ UNCHANGED t_err
       \/ /\ t_pc' = "failed"
          /\ t_err' = "CalledProcessError"
          /\ UNCHANGED made
    /\ UNCHANGED <<t_op, cli, probe, files, created, transcript_gtf, path_to_fimo, printed>>
    /\ UNCHANGED pipeVars

(* ------------------------------- calls --------------------------------- *)

\* no external-tool operation is in progress
ToolsIdle ==
    /\ t_op = "none"
    /\ t_pc = "idle"
    /\ t_err = "none"
    /\ cli = "ok"
    /\ probe = "none"
    /\ files = {}
    /\ created = FALSE
    /\ transcript_gtf = FALSE
    /\ path_to_fimo = <<>>
    /\ printed = <<>>
    /\ commands = <<>>
    /\ made = {}

\* generate_pseudo_cells and _kmeans_division are not called
PipelineIdle ==
    /\ entry = "none"
    /\ pc = "idle"
    /\ err = "none"
    /\ cells = <<>>
    /\ max_size = 1
    /\ max_k = DefaultMaxK
    /\ labels = <<>>
    /\ to_process = <<>>
    /\ fit_calls = 0
    /\ division = <<>>
    /\ obs_names = <<>>
    /\ clusters = <<>>
    /\ categories = {}
    /\ X = <<>>
    /\ pseudoable_cluster_size = 1
    /\ max_pseudo_size = 1
    /\ aggregate_func = ""
    /\ max_pseudo_sizes = <<>>
    /\ cluster = <<>>
    /\ records = <<>>
    /\ pseudo_group = <<>>
    /\ obs_pseudo_group = <<>>
    /\ balanced_matrix = <<>>
    /\ obs = <<>>
    /\ result = <<>>

\* a direct call _kmeans_division(matrix, cells, max_pseudo_size, max_k)
InitDirect ==
    /\ entry = "_kmeans_division"
    /\ pc = "call"
    /\ err = "none"
    /\ max_size \in 0..MaxPseudoSize
    /\ max_k \in MaxKs
    /\ \E n \in 0..MaxDegenCells :
         /\ (max_size >= 2 => n <= MaxCells)
         /\ cells = [i \in 1..n |-> i]
    /\ labels = <<>>
    /\ to_process = <<>>
    /\ fit_calls = 0
    /\ division = <<>>
    /\ obs_names = <<>>
    /\ clusters = <<>>
    /\ categories = {}
    /\ X = <<>>
    /\ pseudoable_cluster_size = 1
    /\ max_pseudo_size = 1
    /\ aggregate_func = ""
    /\ max_pseudo_sizes = <<>>
    /\ cluster = <<>>
    /\ records = <<>>
    /\ pseudo_group = <<>>
    /\ obs_pseudo_group = <<>>
    /\ balanced_matrix = <<>>
    /\ obs = <<>>
    /\ result = <<>>

\* a call generate_pseudo_cells(adata, pseudoable_cluster_size, max_pseudo_size,
\* aggregate_func) on a dataset of unique cells, each with a cluster
InitGenerate ==
    /\ entry = "generate_pseudo_cells"
    /\ pc = "call"
    /\ err = "none"
    /\ \E n \in 0..MaxDataset :
         /\ obs_names = [i \in 1..n |-> i]
         /\ \E cl \in [1..n -> ClusterNames] :
              clusters = [i \in 1..n |-> <<i, cl[i]>>]
    /\ X = <<>>
    /\ categories \in {c \in SUBSET ClusterNames :
                          \A i \in 1..Len(clusters) : clusters[i][2] \in c}
    /\ pseudoable_cluster_size \in 1..MaxPseudoable
    /\ max_pseudo_size \in 1..MaxPseudoSize
    /\ aggregate_func = ""
    /\ cells = <<>>
    /\ max_size = 1
    /\ max_k = DefaultMaxK
    /\ labels = <<>>
    /\ to_process = <<>>
    /\ fit_calls = 0
    /\ division = <<>>
    /\ max_pseudo_sizes = <<>>
    /\ cluster = <<>>
    /\ records = <<>>
    /\ pseudo_group = <<>>
    /\ obs_pseudo_group = <<>>
    /\ balanced_matrix = <<>>
    /\ obs = <<>>
    /\ result = <<>>

Init == (InitDirect \/ InitGenerate) /\ ToolsIdle

Next ==
    \/ DirectCall
    \/ KMeansStep
    \/ KMeansReturn
    \/ CalculatePseudoGroup
    \/ ClusterCall
    \/ ClusterRecord
    \/ ConcatRecords
    \/ MergePseudoCell

Spec == Init /\ [][Next]_vars

\* the paths of a JBrowse directory that may exist before the call
FileStates == {{}, {"path"}, {"path", "config"}, {"path", "trix"}, {"path", "config", "trix"}}

FimoPaths == {<<>>, <<"b">>, <<"b", "/">>}

\* JBrowse(path) followed by create(...) and serve(), or bed_cmotif_profiles(...)
InitTools ==
    /\ PipelineIdle
    /\ t_op \in {"JBrowse", "bed_cmotif_profiles"}
    /\ t_pc = "call"
    /\ t_err = "none"
    /\ cli \in {"ok", "missing", "nonzero"}
    /\ probe = "none"
    /\ created = FALSE
    /\ printed = <<>>
    /\ commands = <<>>
    /\ made = {}
    /\ IF t_op = "JBrowse"
       THEN /\ files \in FileStates
            /\ transcript_gtf \in BOOLEAN
            /\ path_to_fimo = <<>>
       ELSE /\ files = {}
            /\ transcript_gtf = FALSE
            /\ path_to_fimo \in FimoPaths

NextTools ==
    \/ JBrowseInit
    \/ ToolChanges
    \/ Create
    \/ CreateDir
    \/ AddAssembly
    \/ AddTrack
    \/ TextIndex
    \/ Serve
    \/ FimoProbe
    \/ ProfileStep

SpecTools == InitTools /\ [][NextTools]_vars

(* ------------------------------ properties ----------------------------- *)
\* the cluster of a cell of the dataset
ClusterOf(c) == clusters[CHOOSE i \in 1..Len(clusters) : clusters[i][1] = c][2]

\* the entries of a Series that carry a given value
Carrying(series, v) == {i \in 1..Len(series) : series[i][2] = v}

\* _calculate_pseudo_group has just returned to generate_pseudo_cells
GroupsReturned == entry = "generate_pseudo_cells" /\ pc = "merge_call"

\* C1 (coverage): the Series returned by _calculate_pseudo_group has exactly
\* one entry per cell of the dataset - none missing, none twice, no entry for
\* anything else - and no entry is left unset (NaN, or 'nan' behind the
\* cluster prefix); the same holds of every Series _kmeans_division returns
\* for the cells it was given.
C1_Coverage ==
    /\ pc = "division_returned" =>
          /\ \A c \in Range(cells) :
                Cardinality({i \in 1..Len(division) : division[i][1] = c}) = 1
          /\ \A i \in 1..Len(division) :
                /\ division[i][1] \in Range(cells)
                /\ division[i][2] # NaN
    /\ GroupsReturned =>
          /\ \A c \in Range(obs_names) :
                Cardinality({i \in 1..Len(pseudo_group) : pseudo_group[i][1] = c}) = 1
          /\ \A i \in 1..Len(pseudo_group) :
                /\ pseudo_group[i][1] \in Range(obs_names)
                /\ pseudo_group[i][2] # NaN
                /\ pseudo_group[i][2] #
                      ClusterOf(pseudo_group[i][1]) \o ColonColon \o FormatLabel(NaN)

\* a dataset of two clusters, one of them clustered by k-means more than once
C1_Witness ==
    /\ GroupsReturned
    /\ Len(obs_names) = 3
    /\ Cardinality(Range(SeriesValues(clusters))) = 2
    /\ fit_calls >= 2

\* C2 (size bound): when _kmeans_division returns for max_pseudo_size = m >= 1,
\* no label is carried by more than m cells; and after _calculate_pseudo_group
\* the group of every cell has at most min(n \div pseudoable_cluster_size + 1,
\* max_pseudo_size) cells, n being the size of the cell's cluster.
C2_SizeBound ==
    /\ (pc = "division_returned" /\ max_size >= 1) =>
          \A i \in 1..Len(division) :
              Cardinality(Carrying(division, division[i][2])) <= max_size
    /\ (GroupsReturned /\ max_pseudo_size >= 1) =>
          \A i \in 1..Len(pseudo_group) :
              LET n == CellCount(clusters, ClusterOf(pseudo_group[i][1]))
                  size == Cardinality(Carrying(pseudo_group, pseudo_group[i][2]))
              IN  /\ size <= (n \div pseudoable_cluster_size) + 1
                  /\ size <= max_pseudo_size

\* a cluster was split again after a first split left a group too large, and
\* ended with a group of exactly the cap (2 cells)
C2_Witness ==
    /\ GroupsReturned
    /\ fit_calls >= 2
    /\ \E i \in 1..Len(pseudo_group) :
          /\ Cardinality(Carrying(pseudo_group, pseudo_group[i][2])) = 2
          /\ CellCount(clusters, ClusterOf(pseudo_group[i][1])) = 3

\* C3 (degenerate clustering): a clustering call on a subset larger than
\* max_pseudo_size is always followed by a size reduction - when the clustering
\* puts all rows into one output cluster a fallback split applies - so every
\* subset pushed back on the work stack is strictly smaller than the one popped.
C3_DegenerateSplitShrinks ==
    [][(/\ pc = "kmeans_loop"
        /\ pc' = "kmeans_loop"
        /\ fit_calls' = fit_calls + 1)
       => \A j \in Len(to_process)..Len(to_process') :
             Len(to_process'[j][1]) < Len(to_process[Len(to_process)][1])]_vars

\* C4 (cluster preservation): after _calculate_pseudo_group two cells with
\* the same pseudo-cell label are in the same cluster.
C4_ClusterPreservation ==
    GroupsReturned =>
        \A i, j \in 1..Len(pseudo_group) :
            pseudo_group[i][2] = pseudo_group[j][2]
                => ClusterOf(pseudo_group[i][1]) = ClusterOf(pseudo_group[j][1])

\* the part of a label after its cluster prefix
PathOf(i) == SubSeq(pseudo_group[i][2],
                    Len(ClusterOf(pseudo_group[i][1])) + Len(ColonColon) + 1,
                    Len(pseudo_group[i][2]))

\* two cells of different clusters whose partition paths are the same
C4_Witness ==
    /\ GroupsReturned
    /\ \E i, j \in 1..Len(pseudo_group) :
          /\ ClusterOf(pseudo_group[i][1]) # ClusterOf(pseudo_group[j][1])
          /\ PathOf(i) = PathOf(j)
          /\ PathOf(i) = <<"|", "0">>

\* '|' followed by the decimal digits of i, for i < 100
PipeDecimal(i) ==
    IF i < 10 THEN <<"|", Digits[i + 1]>>
    ELSE <<"|", Digits[(i \div 10) + 1], Digits[(i % 10) + 1]>>

\* C5 (degenerate bound): _kmeans_division with max_pseudo_size <= 1 returns,
\* without any clustering call, one label per cell, the cell at position i
\* (from 0) getting '|' + i; the labels are pairwise distinct.
C5_DegenerateBound ==
    (pc = "division_returned" /\ max_size <= 1) =>
        /\ entry = "_kmeans_division" => fit_calls = 0
        /\ Len(division) = Len(cells)
        /\ \A i \in 1..Len(cells) : division[i] = <<cells[i], PipeDecimal(i - 1)>>
        /\ \A i, j \in 1..Len(division) :
              i # j => division[i][2] # division[j][2]

\* a direct call with max_pseudo_size = 0 on eleven cells: labels |0 .. |10
C5_Witness ==
    /\ entry = "_kmeans_division"
    /\ pc = "division_returned"
    /\ max_size = 0
    /\ Len(cells) = 11

\* the sum of the n_cells of the rows of a reduced dataset that carry cluster c
RECURSIVE ClusterTotal(_, _)
ClusterTotal(rows, c) ==
    IF rows = <<>> THEN 0
    ELSE (IF Head(rows).cluster = c THEN Head(rows).n_cells ELSE 0)
         + ClusterTotal(Tail(rows), c)

\* C6 (aggregation row count): the reduced dataset has one row per distinct
\* pseudo-cell label, each row's n_cells is the number of cells with that
\* label, and for every cluster the n_cells of the rows whose recovered
\* cluster is that cluster add up to the number of cells of the cluster.
C6_AggregationRowCount ==
    pc = "done" =>
        /\ \A v \in Range(SeriesValues(obs_pseudo_group)) :
              Cardinality({i \in 1..Len(result) : result[i].name = v}) = 1
        /\ \A i \in 1..Len(result) :
              result[i].n_cells = Cardinality(Carrying(obs_pseudo_group, result[i].name))
        /\ \A c \in Range(SeriesValues(clusters)) :
              ClusterTotal(result, c) = CellCount(clusters, c)

\* C7 (invalid aggregation method): on a dataset of at least one cell, a call
\* with an aggregate_func outside sum, mean, median, downsample fails with the
\* ValueError for aggregate_func, before any clustering, any change of
\* adata.obs and any aggregated row, and returns nothing.
C7_InvalidMethodFails ==
    (Len(obs_names) >= 1 /\ aggregate_func # "" /\ aggregate_func \notin ValidFuncs) =>
        /\ pc = "error"
        /\ err = "ValueError: aggregate_func"
        /\ fit_calls = 0
        /\ obs_pseudo_group = <<>>
        /\ balanced_matrix = <<>>
        /\ result = <<>>

\* C8 (empty subset): _kmeans_division on no cells makes no clustering call
\* and raises nothing, and what it returns is the empty Series - for every
\* max_pseudo_size, in a direct call as for an empty cluster.
C8_EmptySubset ==
    (cells = <<>> /\ pc \in {"kmeans_loop", "division_returned", "error"}) =>
        /\ entry = "_kmeans_division" => fit_calls = 0
        /\ err = "none"
        /\ pc = "division_returned" => division = <<>>

\* C9 (external tool absent): when the version probe of an operation finds
\* the binary missing or exiting non-zero, the operation fails with an
\* exception, having written nothing and run no further command, and a
\* diagnostic naming the dependency has been printed.
C9_ToolAbsentFailsFast ==
    probe \in {"missing", "nonzero"} =>
        /\ t_pc = "failed"
        /\ t_err # "none"
        /\ made = {}
        /\ commands = <<>>
        /\ \E i \in 1..Len(printed) : printed[i] \in {JBrowseDiagnostic, FimoDiagnostic}

\* the column sums of the rows of a set of cells
RECURSIVE SumOver(_, _, _)
SumOver(S, x, j) ==
    IF S = {} THEN 0
    ELSE LET c == CHOOSE c \in S : TRUE IN x[c][j] + SumOver(S \ {c}, x, j)

\* the cells of the dataset that carry a pseudo-cell label
GroupCells(v) == {obs_pseudo_group[i][1] : i \in Carrying(obs_pseudo_group, v)}

\* C10 (sum aggregation): with aggregate_func = 'sum' every row of the reduced
\* dataset is the column-wise sum of the feature rows of the cells of its
\* group, of one cell or more, and its n_cells is the size of the group.
C10_SumAggregation ==
    (pc = "done" /\ aggregate_func = "sum") =>
        \A i \in 1..Len(result) :
            /\ result[i].n_cells = Cardinality(GroupCells(result[i].name))
            /\ \A j \in 1..Len(result[i].row) :
                  result[i].row[j] = SumOver(GroupCells(result[i].name), X, j)

\* the cells with rows [1,2] and [3,4] in one group: row [4,6], n_cells = 2
C10_Witness ==
    /\ pc = "done"
    /\ aggregate_func = "sum"
    /\ Len(obs_names) >= 2
    /\ X[1] = <<1, 2>>
    /\ X[2] = <<3, 4>>
    /\ \E i \in 1..Len(result) :
          /\ GroupCells(result[i].name) = {1, 2}
          /\ result[i].row = <<4, 6>>
          /\ result[i].n_cells = 2
\* a cluster of few cells: at least 2 and fewer than pseudoable_cluster_size
FewCells(c) ==
    /\ CellCount(clusters, c) >= 2
    /\ CellCount(clusters, c) < pseudoable_cluster_size

\* every cell of cluster c is alone in its group
AllSingletons(c) ==
    \A i \in 1..Len(pseudo_group) :
        ClusterOf(pseudo_group[i][1]) = c
            => Cardinality(Carrying(pseudo_group, pseudo_group[i][2])) = 1

\* C11 (small-cluster cap), as stated: with max_pseudo_size >= 2 a cluster of
\* 2 <= n < pseudoable_cluster_size cells is not broken into one pseudo-cell
\* per real cell by _calculate_pseudo_group.
C11_SmallClusterCap ==
    (GroupsReturned /\ max_pseudo_size >= 2) =>
        \A c \in Range(SeriesValues(clusters)) : FewCells(c) => ~AllSingletons(c)

\* C11 (small-cluster cap), amended: the '+ 1' makes every cap at least 1; a
\* cluster of fewer than pseudoable_cluster_size cells gets the cap 1, is
\* labelled '|' + position by _kmeans_division and so ends with one
\* pseudo-cell per real cell.
C11_SmallClusterSingletons ==
    /\ (entry = "generate_pseudo_cells" /\ pc \in {"kmeans_loop", "division_returned"})
          => /\ max_size >= 1
             /\ Len(cells) < pseudoable_cluster_size => max_size = 1
    /\ (entry = "generate_pseudo_cells" /\ pc = "division_returned"
            /\ Len(cells) < pseudoable_cluster_size)
          => \A i \in 1..Len(cells) : division[i] = <<cells[i], PipeDecimal(i - 1)>>
    /\ GroupsReturned =>
          \A c \in Range(SeriesValues(clusters)) :
              CellCount(clusters, c) < pseudoable_cluster_size => AllSingletons(c)

\* a cluster of 2 cells under pseudoable_cluster_size = 3 and
\* max_pseudo_size >= 2, returned as two groups of one cell
C11_Witness ==
    /\ GroupsReturned
    /\ max_pseudo_size >= 2
    /\ pseudoable_cluster_size = 3
    /\ \E c \in Range(SeriesValues(clusters)) :
          /\ CellCount(clusters, c) = 2
          /\ AllSingletons(c)

(* ------------- _kmeans_division under proper clusterings --------------- *)
\* the (cells, prefix) entry the next iteration pops
Top == to_process[Len(to_process)]

\* the labels the cells of a subset carry after an iteration
LabelsOf(series, subset) ==
    {series[i][2] : i \in {j \in 1..Len(series) : series[j][1] \in Range(subset)}}

\* one iteration of the while loop in which mbk.fit, asked for k >= 2
\* clusters, returns at least two non-empty output clusters
ProperKMeansStep ==
    /\ KMeansStep
    /\ (/\ SplitFactor(Len(Top[1]), max_size, max_k) >= 2
        /\ pc' = "kmeans_loop")
          => Cardinality(LabelsOf(labels', Top[1])) >= 2

\* direct calls of _kmeans_division whose clusterings are all proper
NextProper ==
    \/ DirectCall
    \/ ProperKMeansStep
    \/ KMeansReturn

\* a direct call is about to be made
InitProper == InitDirect /\ ToolsIdle

\* the interpreter runs the loop on: an iteration that can be taken is taken
SpecProper == InitProper /\ [][NextProper]_vars /\ WF_vars(NextProper)

\* C12 (termination under proper splits): for max_pseudo_size >= 2 and
\* max_k >= 2, a popped subset larger than max_pseudo_size gets k >= 2; when
\* every clustering with k >= 2 yields at least two non-empty clusters, every
\* subset pushed back is strictly smaller than the subset popped, and the
\* work stack drains: the call returns.
C12_ProperSplitsTerminate ==
    /\ [][(/\ pc = "kmeans_loop"
           /\ max_size >= 2
           /\ max_k >= 2
           /\ fit_calls' = fit_calls + 1)
          => /\ Len(Top[1]) > max_size
                   => SplitFactor(Len(Top[1]), max_size, max_k) >= 2
             /\ pc' = "kmeans_loop"
                   => \A j \in Len(to_process)..Len(to_process') :
                         Len(to_process'[j][1]) < Len(Top[1])]_vars
    /\ (pc = "call" /\ max_size >= 2 /\ max_k >= 2) ~> (pc = "division_returned")

\* the cells of the subsets waiting on the work stack
Waiting == UNION {Range(to_process[j][1]) : j \in 1..Len(to_process)}

C14_SplitFactorWithinRows ==
    /\ (pc = "kmeans_loop" /\ max_size >= 2) =>
          \A j \in 1..Len(to_process) :
              Len(to_process[j][1]) >= 1 =>
                  /\ SplitFactor(Len(to_process[j][1]), max_size, max_k) >= 1
                  /\ SplitFactor(Len(to_process[j][1]), max_size, max_k)
                        <= Len(to_process[j][1])
    /\ (pc = "error" /\ err = "ValueError: n_samples") => Len(cells) = 0

\* a subset of 3 cells pushed back by an earlier iteration, to be clustered
\* with k = 2
C14_Witness ==
    /\ pc = "kmeans_loop"
    /\ max_size = 2
    /\ fit_calls >= 1
    /\ Len(to_process) >= 1
    /\ Len(Top[1]) = 3
    /\ SplitFactor(Len(Top[1]), max_size, max_k) = 2

=============================================================================
